---------------------------- MODULE Spec2Model ----------------------------
(***************************************************************************)
(* A model of minimal-socks5, a SOCKS5 (RFC 1928) proxy server.            *)
(*                                                                         *)
(*   src/src/main.rs     main: the supervisor (listeners, shutdown)        *)
(*   src/src/server.rs   accept loop, handshake, upstream connect, relay   *)
(*   src/src/message.rs  the wire messages                                 *)
(*                                                                         *)
(* A connection is a record; its field pc is the await point its task is   *)
(* suspended at.  Bytes are naturals below 256, byte strings are           *)
(* sequences, a TCP stream is the sequence of bytes not yet read plus the  *)
(* way it ends: "Eof" (the peer shut its write side down) or "Stall" (the  *)
(* peer sends nothing more and keeps the stream open).                     *)
(*                                                                         *)
(* Spec, ServerSpec and SupervisorSpec run the server (one client with     *)
(* every kind of input, several clients, several listen addresses);        *)
(* CodecSpec applies the conversions of message.rs to inputs on their own. *)
(***************************************************************************)
EXTENDS Naturals, Sequences, FiniteSets

VARIABLES
    listener,   \* listener[l]: the task listen_for_tcp_connections of address l
    main,       \* where main is: "Running", "ShuttingDown", "ExitOk", "ExitErr"
    shutdown,   \* the oneshot channel of main: TRUE once the ctrl-c handler sent
    accepted,   \* number of connections accepted so far (they are numbered in order)
    conn,       \* conn[c]: the connection c (client socket, task, upstream socket)
    codec       \* a conversion of message.rs applied on its own: input and results

vars == <<listener, main, shutdown, accepted, conn, codec>>

----------------------------------------------------------------------------
(* Bounds of the model. *)

\* connections the listener accepts in the server specification
MaxConns == 2
\* listen addresses configured in the supervisor specification
MaxListeners == 2
\* longest domain name in the slices given to the codec specification
MaxName == 3

Conns == 1..MaxConns
Listeners == 1..MaxListeners

----------------------------------------------------------------------------
(* message.rs: the wire format *)

VERSION == 5

Byte == 0..255

\* a unit variant carries value 0
Variant(name, v) == [variant |-> name, value |-> v]

NoAuthenticationRequired == Variant("NoAuthenticationRequired", 0)
NoAcceptableMethods == Variant("NoAcceptableMethods", 0)

\* the range of IanaAssigned reaches one byte too far
MethodFromU8Shifted(method) ==
    CASE method = 0 -> NoAuthenticationRequired
      [] method = 1 -> Variant("GSSAPI", 0)
      [] method = 2 -> Variant("UsernamePassword", 0)
      [] method >= 3 /\ method <= 128 -> Variant("IanaAssigned", method)
      [] method >= 129 /\ method <= 254 -> Variant("ReservedForPrivateMethods", method)
      [] method = 255 -> NoAcceptableMethods

\* impl From<u8> for Method
MethodFromU8(method) ==
    CASE method = 0 -> NoAuthenticationRequired
      [] method = 1 -> Variant("GSSAPI", 0)
      [] method = 2 -> Variant("UsernamePassword", 0)
      [] method >= 3 /\ method <= 127 -> Variant("IanaAssigned", method)
      [] method >= 128 /\ method <= 254 -> Variant("ReservedForPrivateMethods", method)
      [] method = 255 -> NoAcceptableMethods

\* impl From<Method> for u8; 256 stands for a panic (unreachable!())
U8FromMethod(method) ==
    CASE method.variant = "NoAuthenticationRequired" -> 0
      [] method.variant = "GSSAPI" -> 1
      [] method.variant = "UsernamePassword" -> 2
      [] method.variant = "IanaAssigned" ->
            IF method.value >= 3 /\ method.value <= 127 THEN method.value ELSE 256
      [] method.variant = "ReservedForPrivateMethods" ->
            IF method.value >= 128 /\ method.value <= 254 THEN method.value ELSE 256
      [] method.variant = "NoAcceptableMethods" -> 255

\* impl From<MethodSelectionResponse> for [u8; 2]
EncodeMethodSelectionResponse(response) == <<VERSION, U8FromMethod(response.method)>>

\* impl From<SocksReply> for u8
U8FromSocksReply(reply) ==
    CASE reply = "Succeeded" -> 0
      [] reply = "GeneralSocksServerFailure" -> 1
      [] reply = "ConnectionNotAllowedByRuleset" -> 2
      [] reply = "NetworkUnreachable" -> 3
      [] reply = "HostUnreachable" -> 4
      [] reply = "ConnectionRefused" -> 5
      [] reply = "TtlExpired" -> 6
      [] reply = "CommandNotSupported" -> 7
      [] reply = "AddressTypeNotSupported" -> 8

\* impl TryFrom<u8> for Command; "Invalid" stands for Err(InvalidCommand)
CommandTryFrom(command) ==
    CASE command = 1 -> "Connect"
      [] command = 2 -> "Bind"
      [] command = 3 -> "UdpAssociate"
      [] OTHER -> "Invalid"

Ipv4(octets) == [variant |-> "Ipv4", octets |-> octets]
DomainName(name) == [variant |-> "DomainName", octets |-> name]
Ipv6(octets) == [variant |-> "Ipv6", octets |-> octets]

\* Address::type
AddressType(address) ==
    CASE address.variant = "Ipv4" -> 1
      [] address.variant = "DomainName" -> 3
      [] address.variant = "Ipv6" -> 4

\* u16::to_be_bytes, u16::from_be_bytes
ToBeBytes(port) == <<port \div 256, port % 256>>
FromBeBytes(high, low) == high * 256 + low

\* impl From<SocksResponse> for Vec<u8>
EncodeSocksResponse(response) ==
    <<VERSION, U8FromSocksReply(response.reply), 0, AddressType(response.address)>>
        \o response.address.octets \o ToBeBytes(response.port)


----------------------------------------------------------------------------
(* Reading a message from a stream.  A parse yields Ok(value), Err(error)  *)
(* or is Pending (the bytes are not there yet and the stream is open).     *)

None == <<>>
Some(x) == <<x>>

Ok(v, n) == [status |-> "Ok", value |-> Some(v), error |-> "", consumed |-> n]
Err(e, n) == [status |-> "Err", value |-> None, error |-> e, consumed |-> n]
Pending == [status |-> "Pending", value |-> None, error |-> "", consumed |-> 0]

\* read_u8 / read_exact on a stream that holds too few bytes: UnexpectedEof
\* once the peer has shut down, pending for as long as it has not
Short(stream, end) == IF end = "Eof" THEN Err("Io", Len(stream)) ELSE Pending

\* MethodSelectionRequest::parse_from_stream
ParseMethodSelectionRequest(stream, end) ==
    IF Len(stream) < 1 THEN Short(stream, end)
    ELSE IF stream[1] # VERSION THEN Err("InvalidMessage", 1)
    ELSE IF Len(stream) < 2 THEN Short(stream, end)
    ELSE LET method_count == stream[2] IN
         IF Len(stream) < 2 + method_count THEN Short(stream, end)
         ELSE Ok([methods |-> [i \in 1..method_count |-> MethodFromU8(stream[2 + i])]],
                 2 + method_count)

\* Address::parse_from_stream, the bytes of stream after the first `at`
ParseAddress(stream, end, at) ==
    IF Len(stream) < at + 1 THEN Short(stream, end)
    ELSE LET type == stream[at + 1] IN
         IF type = 1 THEN
            IF Len(stream) < at + 5 THEN Short(stream, end)
            ELSE Ok(Ipv4(SubSeq(stream, at + 2, at + 5)), at + 5)
         ELSE IF type = 3 THEN
            IF Len(stream) < at + 2 THEN Short(stream, end)
            ELSE LET name_length == stream[at + 2] IN
                 IF Len(stream) < at + 2 + name_length THEN Short(stream, end)
                 ELSE Ok(DomainName(SubSeq(stream, at + 3, at + 2 + name_length)),
                         at + 2 + name_length)
         ELSE IF type = 4 THEN
            IF Len(stream) < at + 17 THEN Short(stream, end)
            ELSE Ok(Ipv6(SubSeq(stream, at + 2, at + 17)), at + 17)
         ELSE Err("InvalidAddressType", at + 1)

\* SocksRequest::parse_from_stream
ParseSocksRequest(stream, end) ==
    IF Len(stream) < 1 THEN Short(stream, end)
    ELSE IF stream[1] # VERSION THEN Err("InvalidMessage", 1)
    ELSE IF Len(stream) < 2 THEN Short(stream, end)
    ELSE IF CommandTryFrom(stream[2]) = "Invalid" THEN Err("InvalidCommand", 2)
    ELSE IF Len(stream) < 3 THEN Short(stream, end)
    ELSE IF stream[3] # 0 THEN Err("MissingReserved", 3)
    ELSE LET address == ParseAddress(stream, end, 3) IN
         IF address.status # "Ok" THEN address
         ELSE LET at == address.consumed IN
              IF Len(stream) < at + 2 THEN Short(stream, end)
              ELSE Ok([command |-> CommandTryFrom(stream[2]),
                       address |-> address.value[1],
                       port |-> FromBeBytes(stream[at + 1], stream[at + 2])],
                      at + 2)

\* the bytes of a stream after the first n
Drop(stream, n) == SubSeq(stream, n + 1, Len(stream))

----------------------------------------------------------------------------
(* message.rs: a SOCKS request held in a slice *)

\* the Result of a TryFrom
TryOk(v) == [status |-> "Ok", value |-> Some(v), error |-> ""]
TryErr(e) == [status |-> "Err", value |-> None, error |-> e]

\* name_length is taken as the number of bytes of the name to keep
DomainNameFromTruncating(name_length, name) ==
    IF Len(name) < name_length
    THEN TryErr("InvalidRequest: Invalid domain name length")
    ELSE TryOk(DomainName(SubSeq(name, 1, name_length)))

\* impl TryFrom<&[u8]> for SocksRequest: the arm
\* &[DOMAIN_NAME_TYPE, name_length, ref name @ ..]
DomainNameFrom(name_length, name) ==
    IF Len(name) # name_length
    THEN TryErr("InvalidRequest: Invalid domain name length")
    ELSE TryOk(DomainName(name))

\* impl TryFrom<&[u8]> for SocksRequest: the match on remainder
AddressFromRemainder(remainder) ==
    IF Len(remainder) >= 1 /\ remainder[1] = 1 THEN
        IF Len(remainder) = 5
        THEN TryOk(Ipv4(Tail(remainder)))
        ELSE TryErr("InvalidRequest: Invalid IPv4 address length")
    ELSE IF Len(remainder) >= 2 /\ remainder[1] = 3 THEN
        DomainNameFrom(remainder[2], SubSeq(remainder, 3, Len(remainder)))
    ELSE IF Len(remainder) >= 1 /\ remainder[1] = 4 THEN
        IF Len(remainder) = 17
        THEN TryOk(Ipv6(Tail(remainder)))
        ELSE TryErr("InvalidRequest: Invalid IPv6 address length")
    ELSE TryErr("InvalidRequest: Invalid address")

\* impl TryFrom<&[u8]> for SocksRequest: the slice is
\* [VERSION, command, RESERVED, remainder @ .., port_high, port_low]
SocksRequestTryFrom(value) ==
    IF Len(value) < 5 \/ value[1] # VERSION \/ value[3] # 0
    THEN TryErr("InvalidRequest: ")
    ELSE IF CommandTryFrom(value[2]) = "Invalid" THEN TryErr("InvalidCommand")
    ELSE LET remainder == SubSeq(value, 4, Len(value) - 2)
             port == FromBeBytes(value[Len(value) - 1], value[Len(value)])
             address == AddressFromRemainder(remainder)
         IN  IF address.status # "Ok" THEN address
             ELSE TryOk([command |-> CommandTryFrom(value[2]),
                         address |-> address.value[1],
                         port |-> port])

----------------------------------------------------------------------------
(* server.rs: the decisions of the handshake *)

\* select_method that looks at the first offered method only
select_method_first(methods) ==
    IF Len(methods) > 0 /\ methods[1] = NoAuthenticationRequired
    THEN [ok |-> TRUE, response |-> [method |-> NoAuthenticationRequired]]
    ELSE [ok |-> FALSE, response |-> [method |-> NoAcceptableMethods]]

\* select_method: Ok(response) or Err(response)
select_method(methods) ==
    IF \E i \in 1..Len(methods) : methods[i] = NoAuthenticationRequired
    THEN [ok |-> TRUE, response |-> [method |-> NoAuthenticationRequired]]
    ELSE [ok |-> FALSE, response |-> [method |-> NoAcceptableMethods]]

SocksResponse(reply, address, port) == [reply |-> reply, address |-> address, port |-> port]

\* a command check that lets BIND through
CommandSupportedBind(command) == command \in { "Connect", "Bind" }

\* perform_socks_request: !matches!(command, Command::Connect)
CommandSupported(command) == command = "Connect"

\* a classification that has lost its ConnectionRefused arm
ConnectErrorReplyUnrefused(kind) ==
    CASE kind = "PermissionDenied" -> "ConnectionNotAllowedByRuleset"
      [] OTHER -> "GeneralSocksServerFailure"

\* perform_socks_request: the reply for a failed TcpStream::connect
ConnectErrorReply(kind) ==
    CASE kind = "PermissionDenied" -> "ConnectionNotAllowedByRuleset"
      [] kind = "ConnectionRefused" -> "ConnectionRefused"
      [] OTHER -> "GeneralSocksServerFailure"

\* perform_socks_request: the Err(SocksResponse) of every failure
FailureResponse(reply, request) ==
    [ok |-> FALSE, response |-> SocksResponse(reply, request.address, request.port)]

\* perform_socks_request: the Ok((proxy_stream, SocksResponse)); bind_address is
\* proxy_stream.local_addr(), and impl From<IpAddr> for Address keeps the octets
SuccessResponse(request, bind_address) ==
    [ok |-> TRUE,
     response |-> SocksResponse("Succeeded",
                                IF Len(bind_address.ip) = 4 THEN Ipv4(bind_address.ip)
                                                            ELSE Ipv6(bind_address.ip),
                                bind_address.port)]

\* std::str::from_utf8(..).is_ok(): the well-formed byte sequences of UTF-8
RECURSIVE Utf8From(_, _)
Utf8From(b, i) ==
    LET Cont(k, lo, hi) == i + k <= Len(b) /\ b[i + k] >= lo /\ b[i + k] <= hi
    IN  IF i > Len(b) THEN TRUE
        ELSE IF b[i] < 128 THEN Utf8From(b, i + 1)
        ELSE IF b[i] >= 194 /\ b[i] <= 223 THEN Cont(1, 128, 191) /\ Utf8From(b, i + 2)
        ELSE IF b[i] = 224 THEN
            Cont(1, 160, 191) /\ Cont(2, 128, 191) /\ Utf8From(b, i + 3)
        ELSE IF b[i] = 237 THEN
            Cont(1, 128, 159) /\ Cont(2, 128, 191) /\ Utf8From(b, i + 3)
        ELSE IF b[i] >= 225 /\ b[i] <= 239 THEN
            Cont(1, 128, 191) /\ Cont(2, 128, 191) /\ Utf8From(b, i + 3)
        ELSE IF b[i] = 240 THEN
            Cont(1, 144, 191) /\ Cont(2, 128, 191) /\ Cont(3, 128, 191)
                /\ Utf8From(b, i + 4)
        ELSE IF b[i] >= 241 /\ b[i] <= 243 THEN
            Cont(1, 128, 191) /\ Cont(2, 128, 191) /\ Cont(3, 128, 191)
                /\ Utf8From(b, i + 4)
        ELSE IF b[i] = 244 THEN
            Cont(1, 128, 143) /\ Cont(2, 128, 191) /\ Cont(3, 128, 191)
                /\ Utf8From(b, i + 4)
        ELSE FALSE

IsUtf8(bytes) == Utf8From(bytes, 1)

SocketAddr(ip, port) == [ip |-> ip, port |-> port]

----------------------------------------------------------------------------
(* The environment: what clients send, what the resolver, the upstream     *)
(* hosts and the operating system answer.                                  *)

\* method-selection messages: VER NMETHODS METHODS
MethodSelectionMessages ==
    { <<5, 1, 0>>,              \* no authentication
      <<5, 1, 2>>,              \* username/password alone
      <<5, 2, 2, 0>>,           \* username/password, no authentication
      <<5, 3, 0, 1, 128>>,      \* no authentication first of three
      <<5, 3, 1, 0, 2>>,        \* no authentication second of three
      <<5, 2, 3, 255>>,         \* IANA assigned, no acceptable methods
      <<5, 0>>,                 \* no method at all
      <<4, 1, 0>>,              \* SOCKS 4
      <<5, 2, 0>>,              \* one method byte short
      <<>> }

ConnectIpv4 == <<5, 1, 0, 1, 127, 0, 0, 1, 31, 144>>

\* SOCKS requests: VER CMD RSV ATYP DST.ADDR DST.PORT
SocksRequestMessages ==
    { ConnectIpv4,
      <<5, 1, 0, 3, 2, 97, 98, 0, 80>>,                 \* CONNECT ab:80
      <<5, 1, 0, 3, 1, 255, 0, 80>>,                    \* CONNECT, a name not UTF-8
      <<5, 1, 0, 4, 0, 0, 0, 0, 0, 0, 0, 0, 0, 0, 0, 0, 0, 0, 0, 1, 1, 187>>,
      <<5, 2, 0, 1, 10, 0, 0, 2, 0, 80>>,               \* BIND 10.0.0.2:80
      <<5, 2, 0, 3, 2, 97, 98, 1, 0>>,                  \* BIND ab:256
      <<5, 3, 0, 3, 2, 97, 98, 0, 53>>,                 \* UDP ASSOCIATE ab:53
      <<5, 3, 0, 4, 0, 0, 0, 0, 0, 0, 0, 0, 0, 0, 0, 0, 0, 0, 0, 1, 0, 53>>,
      <<4, 1, 0, 1, 127, 0, 0, 1, 31, 144>>,            \* SOCKS 4
      <<5, 9, 0, 1, 127, 0, 0, 1, 31, 144>>,            \* no such command
      <<5, 1, 1, 1, 127, 0, 0, 1, 31, 144>>,            \* reserved byte set
      <<5, 1, 0, 2, 127, 0, 0, 1, 31, 144>>,            \* no such address type
      <<5, 1, 0, 1, 127, 0>>,                           \* cut short
      <<>> }

Payloads == { <<>>, <<42>> }
StreamEnds == { "Eof", "Stall" }

Stream(bytes, end) == [bytes |-> bytes, end |-> end]

\* what one client sends over the life of its connection
ClientStreams ==
    { Stream(m \o ConnectIpv4, e) : m \in MethodSelectionMessages, e \in StreamEnds }
    \cup { Stream(<<5, 1, 0>> \o r \o p, e) :
             r \in SocksRequestMessages, p \in Payloads, e \in StreamEnds }

\* the clients of the server specification
ServerClientStreams ==
    { Stream(<<5, 1, 0>> \o <<5, 1, 0, 3, 2, 97, 98, 0, 80>> \o <<42>>, "Eof"),
      Stream(<<5, 1, 2>>, "Stall"),
      Stream(<<5, 1>>, "Stall") }

\* what an upstream host sends
UpstreamStreams == { Stream(p, e) : p \in { <<>>, <<43>> }, e \in StreamEnds }

\* the system resolver's answers for a domain name: the addresses of n hosts
\* for an n of hosts, or none (an error)
Resolutions(hosts, port) ==
    { <<>> } \cup { [i \in 1..n |-> SocketAddr(<<10, 0, 0, i>>, port)] : n \in hosts }

\* how TcpStream::connect ends: Ok or the io::ErrorKind of its error
ConnectOutcomes ==
    { "Ok", "PermissionDenied", "ConnectionRefused", "TimedOut", "HostUnreachable" }

\* proxy_stream.local_addr(): the local end of the upstream socket, or none (an error)
LocalAddrs ==
    { Some(SocketAddr(<<192, 168, 0, 7>>, 40000)),
      Some(SocketAddr(<<254, 128, 0, 0, 0, 0, 0, 0, 0, 0, 0, 0, 0, 0, 0, 7>>, 40001)),
      None }

\* how a write of bytes to a socket ends: all of them written, or an error after
\* some of them
WriteOutcomes(bytes, partial) == { Len(bytes) } \cup { n \in partial : n < Len(bytes) }

\* everything the environment of a connection may do
Environment ==
    [connects |-> ConnectOutcomes, upstreams |-> UpstreamStreams,
     locals |-> LocalAddrs, partial |-> {0, 1}, hosts |-> {1, 2}]

\* the environment of the connections of the server specification
ServerEnvironment ==
    [connects |-> { "Ok", "ConnectionRefused" },
     upstreams |-> { Stream(<<43>>, "Eof") },
     locals |-> { Some(SocketAddr(<<192, 168, 0, 7>>, 40000)) },
     partial |-> {0}, hosts |-> {1}]

----------------------------------------------------------------------------
(* server.rs: one connection.  pc is "Idle" before the connection is       *)
(* accepted, then the await point of its task, and "Closed" once the task  *)
(* has ended and dropped its sockets.  read, lookups, connects, connected, *)
(* established, copied, late (the bytes copied one way after the other way *)
(* was done) and written are the history of what the task did, error is    *)
(* the message its task ended with.                                        *)

IdleConn ==
    [pc |-> "Idle",
     clientIn |-> <<>>, clientEnd |-> "Stall", clientOut |-> <<>>,
     methods |-> None, selected |-> None, request |-> None,
     addresses |-> <<>>, result |-> None,
     upstream |-> "None", local_addr |-> None,
     upstreamIn |-> <<>>, upstreamEnd |-> "Stall", upstreamOut |-> <<>>,
     a_to_b |-> "Running", b_to_a |-> "Running",
     read |-> [MethodSelectionRequest |-> 0, SocksRequest |-> 0],
     lookups |-> 0, connects |-> 0, connected |-> "",
     established |-> FALSE, copied |-> [a_to_b |-> 0, b_to_a |-> 0], late |-> 0,
     written |-> <<>>, error |-> ""]

\* the await points inside tokio::time::timeout(.., handshake_and_connect(..))
HandshakePcs ==
    { "ParseMethodSelection", "WriteMethodSelection", "ParseSocksRequest",
      "LookupHost", "Connect", "WriteSocksResponse" }

\* the runtime runs tasks until main returns
Alive == main \in { "Running", "ShuttingDown" }

\* the task ends and only the client socket is closed
CloseClientOnly(k, error) == [k EXCEPT !.pc = "Closed", !.error = error]

\* the task ends: client_stream is dropped, and so is the upstream socket
Close(k, error) ==
    [k EXCEPT !.pc = "Closed", !.error = error,
              !.upstream = IF @ = "Open" THEN "Closed" ELSE @]

\* a read of n bytes of the client's stream for the message `what`
Read(k, n, what) == [k EXCEPT !.clientIn = Drop(@, n), !.read[what] = @ + n]

\* write_to_stream: all of bytes written (n = Len(bytes)), or an error after n of them
Write(k, bytes, n, kind, value) ==
    IF n = Len(bytes)
    THEN [k EXCEPT !.clientOut = @ \o bytes,
                   !.written = Append(@, [kind |-> kind, value |-> value])]
    ELSE Close([k EXCEPT !.clientOut = @ \o SubSeq(bytes, 1, n)], "write failed")

\* the response of an accepted method is never written (its future never awaited)
MethodSelectedUnwritten(k, request) ==
    [k EXCEPT !.methods = Some(request.methods),
              !.selected = Some(select_method(request.methods)),
              !.pc = IF select_method(request.methods).ok THEN "ParseSocksRequest"
                                                          ELSE "WriteMethodSelection"]

\* handshake_and_connect: the parsed request goes to select_method, whose
\* response is written next
MethodSelected(k, request) ==
    [k EXCEPT !.methods = Some(request.methods),
              !.selected = Some(select_method(request.methods)),
              !.pc = "WriteMethodSelection"]

\* the Err arm of the match on select_method does not bail
AfterMethodSelectionResponseLenient(k) == [k EXCEPT !.pc = "ParseSocksRequest"]

\* handshake_and_connect: after the method-selection response is written
AfterMethodSelectionResponse(k) ==
    IF k.selected[1].ok
    THEN [k EXCEPT !.pc = "ParseSocksRequest"]
    ELSE Close(k, "No acceptable method, closing connection.")

\* a parse error answered with a general failure response
RequestParseErrorReplied(k, error) ==
    LET response == SocksResponse("GeneralSocksServerFailure", Ipv4(<<0, 0, 0, 0>>), 0)
    IN  Close([k EXCEPT !.clientOut = @ \o EncodeSocksResponse(response),
                        !.written = Append(@, [kind |-> "SocksResponse",
                                               value |-> response])],
              error)

\* handshake_and_connect: a SocksRequest that does not parse
RequestParseError(k, error) == Close(k, error)

\* perform_socks_request writes its response itself before it returns it
RespondWritten(k, result) ==
    [k EXCEPT !.result = Some(result), !.pc = "WriteSocksResponse",
              !.clientOut = @ \o EncodeSocksResponse(result.response),
              !.written = Append(@, [kind |-> "SocksResponse",
                                     value |-> result.response])]

\* perform_socks_request returns, its response is written next
Respond(k, result) == [k EXCEPT !.result = Some(result), !.pc = "WriteSocksResponse"]

\* perform_socks_request calls TcpStream::connect
Connecting(k, addresses) ==
    [k EXCEPT !.addresses = addresses, !.connects = @ + 1, !.pc = "Connect"]

\* perform_socks_request up to its first pending await
RequestParsed(k, request) ==
    LET k1 == [k EXCEPT !.request = Some(request)]
        k2 == [k1 EXCEPT !.lookups = @ + 1]
    IN  IF ~CommandSupported(request.command)
        THEN Respond(k1, FailureResponse("CommandNotSupported", request))
        ELSE IF request.address.variant = "DomainName"
        THEN IF IsUtf8(request.address.octets)
             THEN [k2 EXCEPT !.pc = "LookupHost"]
             ELSE Respond(k2, FailureResponse("AddressTypeNotSupported", request))
        ELSE Connecting(k2, <<SocketAddr(request.address.octets, request.port)>>)

\* perform_socks_request: lookup_host returns
Resolved(k, addresses) ==
    IF addresses = <<>>
    THEN Respond(k, FailureResponse("GeneralSocksServerFailure", k.request[1]))
    ELSE Connecting(k, addresses)

\* perform_socks_request: TcpStream::connect returns, then local_addr()
Connected(k, outcome, upstream, local) ==
    IF outcome # "Ok"
    THEN Respond([k EXCEPT !.connected = outcome],
                 FailureResponse(ConnectErrorReply(outcome), k.request[1]))
    ELSE LET k1 == [k EXCEPT !.connected = outcome,
                             !.upstream = "Open", !.local_addr = local,
                             !.upstreamIn = upstream.bytes,
                             !.upstreamEnd = upstream.end]
         IN  IF local = None
             THEN Respond([k1 EXCEPT !.upstream = "Closed"],
                          FailureResponse("GeneralSocksServerFailure", k.request[1]))
             ELSE Respond(k1, SuccessResponse(k.request[1], local[1]))

\* the relay is spawned whatever perform_socks_request returned
AfterSocksResponseAlways(k) == [k EXCEPT !.pc = "Relay", !.established = TRUE]

\* handshake_and_connect after the SOCKS response is written, and
\* run_socks_protocol: tokio::spawn(proxy_data(..))
AfterSocksResponse(k) ==
    IF k.result[1].ok
    THEN [k EXCEPT !.pc = "Relay", !.established = TRUE]
    ELSE Close(k, "Failed to perform socks request, closing connection.")

\* the elapsed timeout is noted and the handshake goes on
ElapsedNoted(k) == [k EXCEPT !.error = "Handshake and connection timed out"]

\* run_socks_protocol: the timeout elapsed, the handshake future is dropped
Elapsed(k) == Close(k, "Handshake and connection timed out")

\* a relay that returns as soon as one direction is done
RelayDoneEither(a_to_b, b_to_a) == a_to_b = "Done" \/ b_to_a = "Done"

\* copy_bidirectional returns Ok once both directions are done
RelayDone(a_to_b, b_to_a) == a_to_b = "Done" /\ b_to_a = "Done"

\* proxy_data: a poll of copy_bidirectional ends
Polled(k) ==
    IF RelayDone(k.a_to_b, k.b_to_a) THEN Close(k, "Finished proxying") ELSE k

----------------------------------------------------------------------------
(* The steps of a connection's task *)

\* a task the accept loop awaits with `?`: the connection's error ends the listener
StepPropagating(c, k) ==
    /\ conn' = [conn EXCEPT ![c] = k]
    /\ listener' = IF k.pc = "Closed" /\ k.error # "Finished proxying"
                   THEN [l \in Listeners |->
                            IF listener[l] = "Listening" THEN "Failed" ELSE listener[l]]
                   ELSE listener
    /\ UNCHANGED <<main, shutdown, accepted, codec>>

\* run_socks_protocol and proxy_data run in a task of their own (tokio::spawn):
\* a step changes the connection of the task and nothing else
Step(c, k) ==
    /\ conn' = [conn EXCEPT ![c] = k]
    /\ UNCHANGED <<listener, main, shutdown, accepted, codec>>

\* handshake_and_connect: MethodSelectionRequest::parse_from_stream(..).await?
ParseMethodSelection(c) ==
    /\ Alive
    /\ conn[c].pc = "ParseMethodSelection"
    /\ LET k == conn[c]
           r == ParseMethodSelectionRequest(k.clientIn, k.clientEnd)
           read == Read(k, r.consumed, "MethodSelectionRequest")
       IN  /\ r.status # "Pending"
           /\ Step(c, IF r.status = "Ok" THEN MethodSelected(read, r.value[1])
                                         ELSE Close(read, r.error))

\* handshake_and_connect: response.write_to_stream(client_stream).await?
WriteMethodSelection(c, env) ==
    /\ Alive
    /\ conn[c].pc = "WriteMethodSelection"
    /\ LET k == conn[c]
           response == k.selected[1].response
           bytes == EncodeMethodSelectionResponse(response)
       IN  \E n \in WriteOutcomes(bytes, env.partial) :
               LET w == Write(k, bytes, n, "MethodSelectionResponse", response)
               IN  Step(c, IF n = Len(bytes) THEN AfterMethodSelectionResponse(w) ELSE w)

\* handshake_and_connect: SocksRequest::parse_from_stream(..).await?, then
\* perform_socks_request up to its first pending await
ParseRequest(c) ==
    /\ Alive
    /\ conn[c].pc = "ParseSocksRequest"
    /\ LET k == conn[c]
           r == ParseSocksRequest(k.clientIn, k.clientEnd)
           read == Read(k, r.consumed, "SocksRequest")
       IN  /\ r.status # "Pending"
           /\ Step(c, IF r.status = "Ok" THEN RequestParsed(read, r.value[1])
                                         ELSE RequestParseError(read, r.error))

\* perform_socks_request: lookup_host(&address, port).await of a domain name
LookupHost(c, env) ==
    /\ Alive
    /\ conn[c].pc = "LookupHost"
    /\ \E addresses \in Resolutions(env.hosts, conn[c].request[1].port) :
           Step(c, Resolved(conn[c], addresses))

\* perform_socks_request: TcpStream::connect(..).await and what follows it
Connect(c, env) ==
    /\ Alive
    /\ conn[c].pc = "Connect"
    /\ \E outcome \in env.connects :
           IF outcome = "Ok"
           THEN \E upstream \in env.upstreams, local \in env.locals :
                    Step(c, Connected(conn[c], outcome, upstream, local))
           ELSE Step(c, Connected(conn[c], outcome, Stream(<<>>, "Stall"), None))

\* handshake_and_connect: response.write_to_stream(client_stream).await? of the
\* SOCKS response; run_socks_protocol then spawns proxy_data
WriteSocksResponse(c, env) ==
    /\ Alive
    /\ conn[c].pc = "WriteSocksResponse"
    /\ LET k == conn[c]
           response == k.result[1].response
           bytes == EncodeSocksResponse(response)
       IN  \E n \in WriteOutcomes(bytes, env.partial) :
               LET w == Write(k, bytes, n, "SocksResponse", response)
               IN  Step(c, IF n = Len(bytes) THEN AfterSocksResponse(w) ELSE w)

\* the timeout is around the relay too
TimeoutAnytime(c) ==
    /\ Alive
    /\ conn[c].pc \in HandshakePcs \cup { "Relay" }
    /\ Step(c, Elapsed(conn[c]))

\* run_socks_protocol: tokio::time::timeout(connect_timeout, ..) elapses
Timeout(c) ==
    /\ Alive
    /\ conn[c].pc \in HandshakePcs
    /\ Step(c, Elapsed(conn[c]))

\* proxy_data, copy_bidirectional: bytes of the client go to the upstream host
CopyToUpstream(c) ==
    /\ Alive
    /\ conn[c].pc = "Relay"
    /\ conn[c].a_to_b = "Running"
    /\ conn[c].clientIn # <<>>
    /\ Step(c, [conn[c] EXCEPT !.upstreamOut = Append(@, Head(conn[c].clientIn)),
                               !.clientIn = Tail(@),
                               !.copied.a_to_b = @ + 1,
                               !.late = IF conn[c].b_to_a = "Done" THEN @ + 1 ELSE @])

\* copy_bidirectional: the client's stream ends, the write side of the upstream
\* socket is shut down
ClientEof(c) ==
    /\ Alive
    /\ conn[c].pc = "Relay"
    /\ conn[c].a_to_b = "Running"
    /\ conn[c].clientIn = <<>>
    /\ conn[c].clientEnd = "Eof"
    /\ Step(c, Polled([conn[c] EXCEPT !.a_to_b = "Done"]))

\* copy_bidirectional: bytes of the upstream host go to the client
CopyToClient(c) ==
    /\ Alive
    /\ conn[c].pc = "Relay"
    /\ conn[c].b_to_a = "Running"
    /\ conn[c].upstreamIn # <<>>
    /\ Step(c, [conn[c] EXCEPT !.clientOut = Append(@, Head(conn[c].upstreamIn)),
                               !.upstreamIn = Tail(@),
                               !.copied.b_to_a = @ + 1,
                               !.late = IF conn[c].a_to_b = "Done" THEN @ + 1 ELSE @])

\* copy_bidirectional: the upstream host's stream ends, the write side of the
\* client socket is shut down
UpstreamEof(c) ==
    /\ Alive
    /\ conn[c].pc = "Relay"
    /\ conn[c].b_to_a = "Running"
    /\ conn[c].upstreamIn = <<>>
    /\ conn[c].upstreamEnd = "Eof"
    /\ Step(c, Polled([conn[c] EXCEPT !.b_to_a = "Done"]))

\* copy_bidirectional: a read or a write of either socket fails
RelayError(c) ==
    /\ Alive
    /\ conn[c].pc = "Relay"
    /\ Step(c, Close(conn[c], "Error proxying"))

----------------------------------------------------------------------------
(* server.rs: listen_for_tcp_connections; main.rs: main *)

\* main returns: the runtime is dropped and with it every task and socket
Exit(result) ==
    /\ main' = result
    /\ listener' = [l \in Listeners |->
                        IF listener[l] \in { "Spawned", "Listening" } THEN "Aborted"
                                                                      ELSE listener[l]]
    /\ conn' = [c \in Conns |->
                    IF conn[c].pc \in { "Idle", "Closed" } THEN conn[c]
                    ELSE Close(conn[c], "process exit")]
    /\ UNCHANGED <<shutdown, accepted, codec>>

\* listen_for_tcp_connections: TcpListener::bind(socket_address).await?
Bind(l) ==
    /\ Alive
    /\ listener[l] = "Spawned"
    /\ \E bound \in BOOLEAN :
           listener' = [listener EXCEPT ![l] = IF bound THEN "Listening" ELSE "Failed"]
    /\ UNCHANGED <<main, shutdown, accepted, conn, codec>>

\* an accept loop that awaits run_socks_protocol instead of spawning it
AcceptReadyInline(l) ==
    /\ listener[l] = "Listening"
    /\ \A c \in Conns : conn[c].pc \notin HandshakePcs

\* listen_for_tcp_connections: the loop is at listener.accept().await
AcceptReady(l) == listener[l] = "Listening"

\* listen_for_tcp_connections: listener.accept().await? returns a connection,
\* tokio::spawn(run_socks_protocol(..)); limit connections are accepted in all
Accept(l, limit, streams) ==
    /\ Alive
    /\ AcceptReady(l)
    /\ accepted < limit
    /\ accepted' = accepted + 1
    /\ \E stream \in streams :
           conn' = [conn EXCEPT ![accepted + 1] =
                        [IdleConn EXCEPT !.pc = "ParseMethodSelection",
                                         !.clientIn = stream.bytes,
                                         !.clientEnd = stream.end]]
    /\ UNCHANGED <<listener, main, shutdown, codec>>

\* listen_for_tcp_connections: listener.accept().await? returns an error
AcceptError(l) ==
    /\ Alive
    /\ listener[l] = "Listening"
    /\ listener' = [listener EXCEPT ![l] = "Failed"]
    /\ UNCHANGED <<main, shutdown, accepted, conn, codec>>

\* main: the ctrl-c handler sends on the oneshot channel (once: sender.take())
CtrlC ==
    /\ Alive
    /\ ~shutdown
    /\ shutdown' = TRUE
    /\ UNCHANGED <<listener, main, accepted, conn, codec>>

\* a failed listener is joined and main returns Ok(()) all the same
JoinNextOk ==
    /\ main = "Running"
    /\ \E l \in Listeners : listener[l] = "Failed"
    /\ Exit("ExitOk")

\* main: select! takes join_set.join_next(), a listener has returned its error
JoinNext ==
    /\ main = "Running"
    /\ \E l \in Listeners : listener[l] = "Failed"
    /\ Exit("ExitErr")

\* the shutdown branch waits for the listeners without aborting them
ShutdownLeavesListeners ==
    /\ main = "Running"
    /\ shutdown
    /\ main' = "ShuttingDown"
    /\ UNCHANGED <<listener, shutdown, accepted, conn, codec>>

\* main: select! takes shutdown_receiver; join_set.shutdown() aborts the listeners
Shutdown ==
    /\ main = "Running"
    /\ shutdown
    /\ main' = "ShuttingDown"
    /\ listener' = [l \in Listeners |->
                        IF listener[l] \in { "Spawned", "Listening" } THEN "Aborted"
                                                                      ELSE listener[l]]
    /\ UNCHANGED <<shutdown, accepted, conn, codec>>

\* main: join_set.shutdown().await is over, main returns Ok(())
ShutdownDone ==
    /\ main = "ShuttingDown"
    /\ Exit("ExitOk")

----------------------------------------------------------------------------
(* message.rs on its own: one conversion applied to one input.  codec.call *)
(* names the conversion, output is what it returned, back what the         *)
(* opposite conversion made of the output.                                 *)

NoCall == [call |-> "", input |-> <<>>, output |-> None, back |-> None]
Call(name, input) == [call |-> name, input |-> input, output |-> None, back |-> None]

\* the bytes of the names: a letter, and two bytes that are address types too
NameOctets == { 97, 3, 1 }
Names == UNION { [1..n -> NameOctets] : n \in 0..MaxName }

\* requests for a domain name: every declared length with every name
DomainNameSlices ==
    { <<VERSION, command, 0, 3, name_length>> \o name \o ToBeBytes(port) :
          command \in { 1, 3 }, name_length \in 0..(MaxName + 1),
          name \in Names, port \in { 80, 769 } }

\* other requests: IPv4, IPv6, and slices that are no request
OtherSlices ==
    { ConnectIpv4,
      <<5, 1, 0, 4, 0, 0, 0, 0, 0, 0, 0, 0, 0, 0, 0, 0, 0, 0, 0, 1, 0, 80>>,
      <<5, 1, 0, 1, 127, 0, 0, 31, 144>>,
      <<5, 1, 0, 4, 0, 1, 0, 80>>,
      <<5, 1, 0, 3, 0, 80>>,
      <<5, 1, 0, 0, 80>>,
      <<5, 1, 0, 2, 0, 0, 80>>,
      <<5, 9, 0, 3, 0, 0, 80>>,
      <<5, 1, 1, 3, 0, 0, 80>>,
      <<4, 1, 0, 3, 0, 0, 80>>,
      <<5, 1, 0, 3>>,
      <<>> }

CodecCalls ==
    { Call("Method::from", b) : b \in Byte }
        \cup { Call("SocksRequest::try_from", value) :
                   value \in DomainNameSlices \cup OtherSlices }
        \cup { Call("MethodSelectionRequest::parse_from_stream", stream) :
                   stream \in MethodSelectionMessages }

\* impl From<u8> for Method
MethodFrom ==
    /\ codec.call = "Method::from"
    /\ codec.output = None
    /\ codec' = [codec EXCEPT !.output = Some(MethodFromU8(codec.input))]
    /\ UNCHANGED <<listener, main, shutdown, accepted, conn>>

\* impl From<Method> for u8, of the Method just made
U8From ==
    /\ codec.call = "Method::from"
    /\ codec.output # None
    /\ codec.back = None
    /\ codec' = [codec EXCEPT !.back = Some(U8FromMethod(codec.output[1]))]
    /\ UNCHANGED <<listener, main, shutdown, accepted, conn>>

\* MethodSelectionRequest::parse_from_stream, of a stream that ends after the input
ParseFromStream ==
    /\ codec.call = "MethodSelectionRequest::parse_from_stream"
    /\ codec.output = None
    /\ codec' = [codec EXCEPT
                     !.output = Some(ParseMethodSelectionRequest(codec.input, "Eof"))]
    /\ UNCHANGED <<listener, main, shutdown, accepted, conn>>

\* impl TryFrom<&[u8]> for SocksRequest
TryFrom ==
    /\ codec.call = "SocksRequest::try_from"
    /\ codec.output = None
    /\ codec' = [codec EXCEPT !.output = Some(SocksRequestTryFrom(codec.input))]
    /\ UNCHANGED <<listener, main, shutdown, accepted, conn>>

----------------------------------------------------------------------------
(* The specifications *)

InitWith(addresses) ==
    /\ listener = [l \in Listeners |-> IF l \in addresses THEN "Spawned" ELSE "Unconfigured"]
    /\ main = "Running"
    /\ shutdown = FALSE
    /\ accepted = 0
    /\ conn = [c \in Conns |-> IdleConn]
    /\ codec = NoCall

ConnNext(c, env) ==
    \/ ParseMethodSelection(c)
    \/ WriteMethodSelection(c, env)
    \/ ParseRequest(c)
    \/ LookupHost(c, env)
    \/ Connect(c, env)
    \/ WriteSocksResponse(c, env)
    \/ Timeout(c)
    \/ CopyToUpstream(c)
    \/ ClientEof(c)
    \/ CopyToClient(c)
    \/ UpstreamEof(c)
    \/ RelayError(c)

MainNext ==
    \/ \E l \in Listeners : Bind(l)
    \/ \E l \in Listeners : AcceptError(l)
    \/ CtrlC
    \/ JoinNext
    \/ Shutdown
    \/ ShutdownDone

\* one listen address, one client, every kind of client
Init == InitWith({1})

Next ==
    \/ \E l \in Listeners : Accept(l, 1, ClientStreams)
    \/ \E c \in Conns : ConnNext(c, Environment)
    \/ MainNext

Spec == Init /\ [][Next]_vars

\* one listen address, MaxConns clients
ServerInit == InitWith({1})

ServerNext ==
    \/ \E l \in Listeners : Accept(l, MaxConns, ServerClientStreams)
    \/ \E c \in Conns : ConnNext(c, ServerEnvironment)
    \/ MainNext

ServerSpec == ServerInit /\ [][ServerNext]_vars

\* every listen address, one client
SupervisorInit == InitWith(Listeners)

SupervisorNext ==
    \/ \E l \in Listeners : Accept(l, 1, ServerClientStreams)
    \/ \E c \in Conns : ConnNext(c, ServerEnvironment)
    \/ MainNext

SupervisorSpec == SupervisorInit /\ [][SupervisorNext]_vars

\* no server: one conversion of message.rs, one input
CodecInit ==
    /\ listener = [l \in Listeners |-> "Unconfigured"]
    /\ main = "Running"
    /\ shutdown = FALSE
    /\ accepted = 0
    /\ conn = [c \in Conns |-> IdleConn]
    /\ codec \in CodecCalls

CodecNext ==
    \/ MethodFrom
    \/ U8From
    \/ TryFrom
    \/ ParseFromStream

CodecSpec == CodecInit /\ [][CodecNext]_vars

----------------------------------------------------------------------------
(* Properties *)

Prefix(p, q) == Len(p) <= Len(q) /\ SubSeq(q, 1, Len(p)) = p

\* the responses of one kind that a connection has written in full
Responses(k, kind) ==
    { k.written[i].value : i \in { j \in 1..Len(k.written) : k.written[j].kind = kind } }

\* the client of k offered method X'00'
OffersNoAuthentication(k) ==
    \E i \in 1..Len(k.methods[1]) : U8FromMethod(k.methods[1][i]) = 0

\* C1: within a connection the method-selection response is fully written
\* before any byte of the SOCKS request is read, and the SOCKS response is fully
\* written before any relay byte is forwarded in either direction.
HandshakeOrdering ==
    \A c \in Conns :
        LET k == conn[c] IN
        /\ k.read.SocksRequest > 0 =>
              /\ Len(k.written) >= 1
              /\ k.written[1].kind = "MethodSelectionResponse"
              /\ Prefix(<<5, 0>>, k.clientOut)
        /\ k.copied.a_to_b + k.copied.b_to_a > 0 =>
              /\ Len(k.written) = 2
              /\ k.written[2].kind = "SocksResponse"
              /\ Prefix(<<5, 0>> \o EncodeSocksResponse(k.written[2].value), k.clientOut)
              /\ Len(k.clientOut) =
                    2 + Len(EncodeSocksResponse(k.written[2].value)) + k.copied.b_to_a

\* a connection has read a SOCKS request and relayed bytes both ways
HandshakeOrderingWitness ==
    \E c \in Conns :
        /\ conn[c].read.SocksRequest > 0
        /\ conn[c].copied.a_to_b > 0
        /\ conn[c].copied.b_to_a > 0

\* C2: select_method chooses NoAuthenticationRequired exactly when the offered
\* list contains it, at any position, and NoAcceptableMethods otherwise; it
\* chooses no other method.
SelectMethodPolicy ==
    \A c \in Conns :
        LET k == conn[c] IN
        k.methods # None =>
            /\ k.selected # None
            /\ k.selected[1].ok <=> OffersNoAuthentication(k)
            /\ U8FromMethod(k.selected[1].response.method) =
                  IF OffersNoAuthentication(k) THEN 0 ELSE 255

\* no authentication was offered after another method, and selected
SelectMethodPolicyWitness ==
    \E c \in Conns :
        /\ conn[c].methods # None
        /\ Len(conn[c].methods[1]) >= 2
        /\ conn[c].methods[1][1] # NoAuthenticationRequired
        /\ conn[c].selected[1].response.method = NoAuthenticationRequired

\* C3: when the offered methods do not contain NoAuthenticationRequired, the
\* response 05 FF is written and the connection ends: no SOCKS request is read,
\* no SOCKS response is written, nothing is resolved or connected, no relay.
NoAcceptableMethodRejected ==
    \A c \in Conns :
        LET k == conn[c] IN
        (k.methods # None /\ ~OffersNoAuthentication(k)) =>
            /\ k.pc \in { "WriteMethodSelection", "Closed" }
            /\ k.read.SocksRequest = 0
            /\ k.request = None
            /\ Responses(k, "SocksResponse") = {}
            /\ k.lookups = 0
            /\ k.connects = 0
            /\ k.upstream = "None"
            /\ ~k.established
            /\ Prefix(k.clientOut, <<5, 255>>)
            /\ k.error = "No acceptable method, closing connection." =>
                  k.pc = "Closed" /\ k.clientOut = <<5, 255>>
            /\ k.clientOut = <<5, 255>> => k.pc = "Closed"

\* a connection that offered only other methods was answered 05 FF and closed
NoAcceptableMethodRejectedWitness ==
    \E c \in Conns :
        /\ conn[c].methods # None
        /\ Len(conn[c].methods[1]) >= 1
        /\ conn[c].pc = "Closed"
        /\ conn[c].error = "No acceptable method, closing connection."
        /\ conn[c].clientOut = <<5, 255>>

\* C4: a well-formed request with command BIND or UDP ASSOCIATE yields the
\* response CommandNotSupported echoing the requested address and port, with no
\* resolution and no upstream connection; the connection is closed once the
\* response is written.
CommandNotSupportedReply ==
    \A c \in Conns :
        LET k == conn[c] IN
        (k.request # None /\ k.request[1].command \in { "Bind", "UdpAssociate" }) =>
            /\ k.result # None
            /\ ~k.result[1].ok
            /\ k.result[1].response.reply = "CommandNotSupported"
            /\ k.result[1].response.address = k.request[1].address
            /\ k.result[1].response.port = k.request[1].port
            /\ k.lookups = 0
            /\ k.connects = 0
            /\ k.upstream = "None"
            /\ ~k.established
            /\ k.pc \in { "WriteSocksResponse", "Closed" }
            /\ Responses(k, "SocksResponse") \subseteq { k.result[1].response }
            /\ Responses(k, "SocksResponse") # {} =>
                  /\ k.pc = "Closed"
                  /\ k.error = "Failed to perform socks request, closing connection."

\* a UDP ASSOCIATE request to a domain name was answered and the connection closed
CommandNotSupportedReplyWitness ==
    \E c \in Conns :
        /\ conn[c].request # None
        /\ conn[c].request[1].command = "UdpAssociate"
        /\ conn[c].request[1].address.variant = "DomainName"
        /\ conn[c].pc = "Closed"
        /\ Responses(conn[c], "SocksResponse") # {}

\* the reply the claim gives for each kind of connect error
ExpectedReply(kind) ==
    IF kind = "PermissionDenied" THEN "ConnectionNotAllowedByRuleset"
    ELSE IF kind = "ConnectionRefused" THEN "ConnectionRefused"
    ELSE "GeneralSocksServerFailure"

\* C5: when the upstream connect of a CONNECT request fails, exactly one SOCKS
\* response is sent, with reply ConnectionNotAllowedByRuleset for permission
\* denied, ConnectionRefused for connection refused, GeneralSocksServerFailure
\* otherwise, and with the requested address and port (not a resolved one);
\* the connection closes without relay.
ConnectFailureReply ==
    \A c \in Conns :
        LET k == conn[c] IN
        (k.connected # "" /\ k.connected # "Ok") =>
            /\ k.request[1].command = "Connect"
            /\ k.result # None
            /\ ~k.result[1].ok
            /\ k.result[1].response =
                  [reply |-> ExpectedReply(k.connected),
                   address |-> k.request[1].address,
                   port |-> k.request[1].port]
            /\ k.upstream = "None"
            /\ ~k.established
            /\ k.pc \in { "WriteSocksResponse", "Closed" }
            /\ Responses(k, "SocksResponse") \subseteq { k.result[1].response }
            /\ Len(k.written) <= 2
            /\ k.error = "Failed to perform socks request, closing connection." =>
                  /\ k.pc = "Closed"
                  /\ Len(k.written) = 2
                  /\ k.written[2] = [kind |-> "SocksResponse", value |-> k.result[1].response]
            /\ Len(k.written) = 2 => k.pc = "Closed"

\* a refused connect to a resolved name was answered with the name
ConnectFailureReplyWitness ==
    \E c \in Conns :
        /\ conn[c].connected = "ConnectionRefused"
        /\ conn[c].request[1].address.variant = "DomainName"
        /\ Len(conn[c].addresses) = 2
        /\ conn[c].pc = "Closed"
        /\ Len(conn[c].written) = 2
        /\ conn[c].written[2].value.reply = "ConnectionRefused"
        /\ conn[c].written[2].value.address = conn[c].request[1].address

\* the errors of MethodSelectionRequest and SocksRequest::parse_from_stream
ParseErrors ==
    { "InvalidMessage", "InvalidCommand", "MissingReserved", "InvalidAddressType", "Io" }

\* C6: malformed input gets no reply: when the method-selection request does not
\* parse nothing at all is written to the client, when the SOCKS request does
\* not parse nothing is written after the method-selection response; in both
\* cases no upstream connection is attempted.
MalformedInputUnanswered ==
    \A c \in Conns :
        LET k == conn[c] IN
        k.error \in ParseErrors =>
            /\ k.pc = "Closed"
            /\ k.request = None
            /\ k.result = None
            /\ k.lookups = 0
            /\ k.connects = 0
            /\ k.upstream = "None"
            /\ ~k.established
            /\ Responses(k, "SocksResponse") = {}
            /\ IF k.methods = None
               THEN k.clientOut = <<>> /\ k.written = <<>>
               ELSE k.clientOut = <<5, 0>> /\ Len(k.written) = 1

\* a SOCKS request with its reserved byte set ended the connection after 05 00
MalformedInputUnansweredWitness ==
    \E c \in Conns :
        /\ conn[c].error = "MissingReserved"
        /\ conn[c].read.SocksRequest > 0
        /\ conn[c].clientOut = <<5, 0>>
        /\ conn[c].pc = "Closed"

TimedOut(k) == k.error = "Handshake and connection timed out"

\* C7: one timeout bounds the whole handshake: when it fires, at whatever step,
\* the handshake is cancelled, nothing is written to the client from then on,
\* the connection never enters relay and the client connection is closed.
TimeoutAborts ==
    [][\A c \in Conns :
          TimedOut(conn'[c]) =>
              /\ conn[c].pc \in HandshakePcs \/ TimedOut(conn[c])
              /\ conn'[c].pc = "Closed"
              /\ conn'[c].upstream # "Open"
              /\ ~conn'[c].established
              /\ conn'[c].clientOut = conn[c].clientOut
              /\ conn'[c].written = conn[c].written
              /\ conn'[c].copied = conn[c].copied]_vars

\* the timeout fired while the upstream connect of a resolved name was pending
TimeoutAbortsWitness ==
    \E c \in Conns :
        /\ TimedOut(conn[c])
        /\ conn[c].lookups = 1
        /\ conn[c].connects = 1
        /\ conn[c].connected = ""
        /\ conn[c].clientOut = <<5, 0>>
        /\ conn[c].pc = "Closed"

\* C8: a connection is established (relays) only if the upstream connect
\* succeeded and a Succeeded response carrying the local address and port of
\* the upstream socket was written; after a failure response the connection is
\* closed and never relays.
EstablishedOnlyAfterSuccess ==
    \A c \in Conns :
        LET k == conn[c] IN
        /\ (k.established \/ k.pc = "Relay") =>
              /\ k.connected = "Ok"
              /\ k.upstream # "None"
              /\ k.local_addr # None
              /\ Len(k.written) = 2
              /\ k.written[2].kind = "SocksResponse"
              /\ k.written[2].value.reply = "Succeeded"
              /\ k.written[2].value.address.octets = k.local_addr[1].ip
              /\ k.written[2].value.address.variant =
                    (IF Len(k.local_addr[1].ip) = 4 THEN "Ipv4" ELSE "Ipv6")
              /\ k.written[2].value.port = k.local_addr[1].port
        /\ (\E r \in Responses(k, "SocksResponse") : r.reply # "Succeeded") =>
              /\ k.pc = "Closed"
              /\ ~k.established
              /\ k.upstream # "Open"
              /\ k.copied = [a_to_b |-> 0, b_to_a |-> 0]

\* a connection relays after a Succeeded response with an IPv6 local address
EstablishedOnlyAfterSuccessWitness ==
    \E c \in Conns :
        /\ conn[c].pc = "Relay"
        /\ conn[c].request[1].address.variant = "DomainName"
        /\ conn[c].written[2].value.address.variant = "Ipv6"
        /\ conn[c].written[2].value.port = 40001

\* C9 as stated: the relay copies both ways until either direction reaches
\* end-of-stream or fails; as soon as one direction has ended both stop and both
\* sockets are closed, so nothing is forwarded after one direction has ended.
RelayStopsAtFirstEnd == \A c \in Conns : conn[c].late = 0

\* C9, amended: an I/O error in either direction ends the relay at once; the
\* end-of-stream of one direction only shuts down the write side of the other
\* socket, and the relay goes on until the other direction has forwarded all
\* its bytes and reached end-of-stream too; when the relay ends, both sockets
\* are closed together.
RelayTeardown ==
    \A c \in Conns :
        LET k == conn[c] IN
        k.established =>
            /\ k.pc \in { "Relay", "Closed" }
            /\ k.pc = "Relay" =>
                  /\ k.upstream = "Open"
                  /\ k.error = ""
                  /\ k.a_to_b = "Running" \/ k.b_to_a = "Running"
            /\ k.pc = "Closed" =>
                  /\ k.upstream = "Closed"
                  /\ k.error \in { "Finished proxying", "Error proxying", "process exit" }
            /\ k.error = "Finished proxying" =>
                  /\ k.a_to_b = "Done" /\ k.b_to_a = "Done"
                  /\ k.clientIn = <<>> /\ k.clientEnd = "Eof"
                  /\ k.upstreamIn = <<>> /\ k.upstreamEnd = "Eof"
            /\ k.a_to_b = "Done" => k.clientIn = <<>> /\ k.clientEnd = "Eof"
            /\ k.b_to_a = "Done" => k.upstreamIn = <<>> /\ k.upstreamEnd = "Eof"

\* the client's direction had ended before the upstream's byte was forwarded,
\* and the relay finished with every byte forwarded
RelayTeardownWitness ==
    \E c \in Conns :
        /\ conn[c].established
        /\ conn[c].error = "Finished proxying"
        /\ conn[c].copied = [a_to_b |-> 1, b_to_a |-> 1]
        /\ conn[c].late = 1
        /\ conn[c].upstream = "Closed"

\* C10: the accept loop never waits on a connection: whatever the connections
\* accepted so far are doing, a listening listener can accept the next one, and
\* every connection can take its own next step.
AcceptNeverWaits ==
    /\ \A l \in Listeners :
           (Alive /\ listener[l] = "Listening" /\ accepted < MaxConns) =>
               ENABLED Accept(l, MaxConns, ServerClientStreams)
    /\ \A c \in Conns :
           (Alive /\ conn[c].pc \in { "WriteMethodSelection", "LookupHost", "Connect",
                                       "WriteSocksResponse", "Relay" }) =>
               ENABLED ConnNext(c, ServerEnvironment)

\* the first connection is stalled in its handshake; one accepted after it relays
AcceptNeverWaitsWitness ==
    \E c, d \in Conns :
        /\ c < d
        /\ conn[c].pc = "ParseMethodSelection"
        /\ conn[c].clientIn = <<5, 1>>
        /\ conn[c].clientEnd = "Stall"
        /\ conn[d].pc = "Relay"
        /\ conn[d].copied.a_to_b > 0


\* the errors a connection's task ends with
ConnectionErrors ==
    ParseErrors \cup
    { "write failed", "No acceptable method, closing connection.",
      "Failed to perform socks request, closing connection.",
      "Handshake and connection timed out", "Error proxying" }

\* C11: errors are confined to the owning connection: when a connection ends
\* with a handshake failure, a timeout or a relay error, the listeners, the
\* supervisor and every other connection are left as they were (so the listener
\* goes on accepting); the supervisor exits with an error only when a listener
\* has failed.
ErrorsConfined ==
    [][/\ \A c \in Conns :
              (/\ conn[c].pc # "Closed"
               /\ conn'[c].pc = "Closed"
               /\ conn'[c].error \in ConnectionErrors) =>
                  /\ listener' = listener
                  /\ main' = main
                  /\ shutdown' = shutdown
                  /\ accepted' = accepted
                  /\ \A d \in Conns \ { c } : conn'[d] = conn[d]
       /\ (main = "Running" /\ main' = "ExitErr") =>
              \E l \in Listeners : listener[l] = "Failed"]_vars

\* one connection timed out, another one relayed to its end, and the listener
\* still listens
ErrorsConfinedWitness ==
    \E c, d \in Conns :
        /\ c # d
        /\ TimedOut(conn[c])
        /\ conn[d].established
        /\ conn[d].error = "Finished proxying"
        /\ listener[1] = "Listening"
        /\ main = "Running"


\* C12 as stated, from the moment main has received the shutdown signal (the
\* latest moment "the signal fires" can mean): no connection is accepted and
\* no connection in its handshake reaches relay.
NothingAfterSignal ==
    [][(shutdown /\ main # "Running") =>
          /\ accepted' = accepted
          /\ \A c \in Conns :
                 conn[c].pc \in HandshakePcs => conn'[c].pc # "Relay"]_vars

\* C12, amended: once main has taken the shutdown branch every accept loop is
\* aborted and no connection is accepted; the tasks of the connections run on
\* until main returns, and then every connection still in its handshake is
\* closed without reaching relay and without another byte written.  Nothing
\* happens after main has returned.
ShutdownStopsAccepting ==
    [][/\ Alive
       /\ main # "Running" =>
              /\ accepted' = accepted
              /\ \A l \in Listeners : listener'[l] \notin { "Spawned", "Listening" }
       /\ main' \in { "ExitOk", "ExitErr" } =>
              \A c \in Conns :
                  /\ conn'[c].pc \in { "Idle", "Closed" }
                  /\ conn[c].pc \in HandshakePcs =>
                        /\ conn'[c].error = "process exit"
                        /\ ~conn'[c].established
                        /\ conn'[c].upstream # "Open"
                        /\ conn'[c].clientOut = conn[c].clientOut]_vars

\* after ctrl-c both accept loops were aborted and main returned Ok(()) while
\* the accepted connection was in its handshake
ShutdownStopsAcceptingWitness ==
    /\ main = "ExitOk"
    /\ shutdown
    /\ \A l \in Listeners : listener[l] = "Aborted"
    /\ accepted = 1
    /\ conn[1].error = "process exit"
    /\ conn[1].clientOut = <<5, 0>>
    /\ ~conn[1].established


Exited == main \in { "ExitOk", "ExitErr" }

\* C13 as stated: once a listener has failed (bind or accept), main returns an
\* error and no listener is left running; main returns Ok(()) only after the
\* shutdown signal.
ListenerFailureExitsNonZero ==
    /\ (Exited /\ \E l \in Listeners : listener[l] = "Failed") => main = "ExitErr"
    /\ Exited => \A l \in Listeners : listener[l] \notin { "Spawned", "Listening" }
    /\ main = "ExitOk" => shutdown

\* C13, amended: a failed listener makes join_next() ready, and unless the
\* shutdown signal has fired too main returns the error; with both ready
\* select! may take either branch.  Whichever way main returns no listener is
\* left running; main returns an error only because a listener failed, and
\* Ok(()) only after the shutdown signal.
SupervisorOutcome ==
    /\ main = "ExitErr" => \E l \in Listeners : listener[l] = "Failed"
    /\ main = "ExitOk" => shutdown
    /\ Exited => \A l \in Listeners : listener[l] \notin { "Spawned", "Listening" }
    /\ ((\E l \in Listeners : listener[l] = "Failed") /\ ~shutdown) =>
           main \in { "Running", "ExitErr" }
    /\ (main = "Running" /\ \E l \in Listeners : listener[l] = "Failed") =>
           ENABLED JoinNext

\* one address failed to bind or accept; the other one had accepted a
\* connection, and was aborted with it when main returned the error
SupervisorOutcomeWitness ==
    /\ main = "ExitErr"
    /\ ~shutdown
    /\ \E l, m \in Listeners : listener[l] = "Failed" /\ listener[m] = "Aborted"
    /\ accepted = 1
    /\ conn[1].error = "process exit"


\* the ATYP, address and port bytes of an encoded response, decoded as those
\* of a request
DecodedAsRequest(bytes) == SocksRequestTryFrom(<<VERSION, 1, 0>> \o Drop(bytes, 3))

\* C14: a response is written as VER, reply code, 0x00, ATYP, address bytes,
\* big-endian port, a domain name with one length byte before its bytes; the
\* ATYP, address and port bytes of every response written decode under the
\* rules of a request to the address and port of the response.
SocksResponseRoundTrip ==
    \A c \in Conns :
        \A r \in Responses(conn[c], "SocksResponse") :
            LET bytes == EncodeSocksResponse(r)
                decoded == DecodedAsRequest(bytes)
            IN  /\ SubSeq(bytes, 1, 4) =
                      <<VERSION, U8FromSocksReply(r.reply), 0, AddressType(r.address)>>
                /\ r.address.variant = "DomainName" =>
                      /\ bytes[5] = Len(r.address.octets)
                      /\ SubSeq(bytes, 6, Len(bytes) - 2) = r.address.octets
                /\ SubSeq(bytes, Len(bytes) - 1, Len(bytes)) = ToBeBytes(r.port)
                /\ decoded.status = "Ok"
                /\ decoded.value[1].address = r.address
                /\ decoded.value[1].port = r.port


\* C15: a request slice with ATYP 3 decodes only when the declared name length
\* equals the number of bytes between the length byte and the two port bytes;
\* a shorter or a longer name is an error, and a decoded name is exactly those
\* bytes.
DomainNameLengthChecked ==
    (codec.call = "SocksRequest::try_from" /\ codec.output # None) =>
        LET value == codec.input
            result == codec.output[1]
        IN  (/\ Len(value) >= 4
             /\ value[1] = VERSION
             /\ CommandTryFrom(value[2]) # "Invalid"
             /\ value[3] = 0
             /\ value[4] = 3) =>
                IF Len(value) < 7
                THEN result.status = "Err"
                ELSE LET declared == value[5]
                         present == Len(value) - 7
                     IN  /\ result.status = "Ok" <=> declared = present
                         /\ declared # present =>
                                result.error = "InvalidRequest: Invalid domain name length"
                         /\ declared = present =>
                                result.value[1] =
                                    [command |-> CommandTryFrom(value[2]),
                                     address |-> DomainName(SubSeq(value, 6, Len(value) - 2)),
                                     port |-> FromBeBytes(value[Len(value) - 1],
                                                          value[Len(value)])]

\* a name of two bytes declared as one byte long was refused
DomainNameLengthCheckedWitness ==
    /\ codec.call = "SocksRequest::try_from"
    /\ codec.input = <<5, 1, 0, 3, 1, 97, 3, 0, 80>>
    /\ codec.output # None
    /\ codec.output[1].status = "Err"

\* the variant the claim gives for each byte
MethodVariantOf(b) ==
    IF b = 0 THEN "NoAuthenticationRequired"
    ELSE IF b = 1 THEN "GSSAPI"
    ELSE IF b = 2 THEN "UsernamePassword"
    ELSE IF b <= 127 THEN "IanaAssigned"
    ELSE IF b <= 254 THEN "ReservedForPrivateMethods"
    ELSE "NoAcceptableMethods"

\* C16: every byte converts to the Method variant of its range, and that
\* Method converts back to the byte, without a panic.
MethodRoundTrip ==
    codec.call = "Method::from" =>
        /\ codec.output # None =>
               /\ codec.output[1].variant = MethodVariantOf(codec.input)
               /\ codec.output[1].value \in { 0, codec.input }
        /\ codec.back # None => codec.back[1] = codec.input

\* X'80', the first byte of the private range, went to a Method and back
MethodRoundTripWitness ==
    /\ codec.call = "Method::from"
    /\ codec.input = 128
    /\ codec.output = Some(Variant("ReservedForPrivateMethods", 128))
    /\ codec.back = Some(128)

\* C17: a decoded method-selection request holds 1 to 255 methods, as many as
\* its NMETHODS byte says; NMETHODS = 0 is not decoded.
MethodCountInRange ==
    (/\ codec.call = "MethodSelectionRequest::parse_from_stream"
     /\ codec.output # None
     /\ codec.output[1].status = "Ok") =>
        LET methods == codec.output[1].value[1].methods
        IN  /\ Len(methods) >= 1
            /\ Len(methods) <= 255
            /\ Len(methods) = codec.input[2]


\* C18: an open upstream socket belongs to a connection in its handshake or
\* in relay; a connection that ended after its upstream connect succeeded
\* (response not written, no local address, timeout, or relay over) has its
\* upstream socket closed, and only a connect that succeeded opens one.
NoUpstreamLeak ==
    \A c \in Conns :
        LET k == conn[c] IN
        /\ k.upstream = "Open" => k.pc \in HandshakePcs \cup { "Relay" }
        /\ k.upstream # "None" <=> k.connected = "Ok"
        /\ (k.connected = "Ok" /\ k.pc = "Closed") => k.upstream = "Closed"
        /\ (k.connected = "Ok" /\ k.local_addr = None) =>
               k.upstream = "Closed" /\ ~k.established

\* the upstream connect had succeeded, the write of the success response
\* failed: the connection ended without relay, its upstream socket closed
NoUpstreamLeakWitness ==
    \E c \in Conns :
        /\ conn[c].connected = "Ok"
        /\ conn[c].local_addr # None
        /\ conn[c].error = "write failed"
        /\ conn[c].pc = "Closed"
        /\ ~conn[c].established
        /\ conn[c].upstream = "Closed"

\* the places in written of the responses of one kind
Written(k, kind) == { i \in 1..Len(k.written) : k.written[i].kind = kind }

\* C19: a connection writes at most one method-selection response and at most
\* one SOCKS response, and a SOCKS response only after a method-selection
\* response that selected NoAuthenticationRequired.
ResponsesOnce ==
    \A c \in Conns :
        LET k == conn[c] IN
        /\ Cardinality(Written(k, "MethodSelectionResponse")) <= 1
        /\ Cardinality(Written(k, "SocksResponse")) <= 1
        /\ Len(k.written) <= 2
        /\ \A i \in Written(k, "SocksResponse") :
               \E j \in Written(k, "MethodSelectionResponse") :
                   /\ j < i
                   /\ k.written[j].value.method = NoAuthenticationRequired
        /\ k.copied.b_to_a = 0 =>
               Len(k.clientOut) <=
                   2 + (IF k.result = None THEN 0
                        ELSE Len(EncodeSocksResponse(k.result[1].response)))

\* a connection has ended after relaying, with the two responses written
ResponsesOnceWitness ==
    \E c \in Conns :
        /\ conn[c].pc = "Closed"
        /\ conn[c].established
        /\ conn[c].copied.b_to_a > 0
        /\ Len(conn[c].written) = 2
        /\ conn[c].written[1].kind = "MethodSelectionResponse"
        /\ conn[c].written[2].kind = "SocksResponse"

\* C20: a connection in relay is never ended by the handshake timeout; it
\* leaves relay only closed, by copy_bidirectional returning at the end of both
\* streams or on an I/O error, or by main returning.
TimeoutOnlyInHandshake ==
    [][\A c \in Conns :
          conn[c].pc = "Relay" =>
              /\ ~TimedOut(conn'[c])
              /\ conn'[c].pc \in { "Relay", "Closed" }
              /\ conn'[c].pc = "Closed" =>
                     \/ /\ conn'[c].error = "Finished proxying"
                        /\ conn'[c].a_to_b = "Done" /\ conn'[c].b_to_a = "Done"
                        /\ conn[c].a_to_b = "Running" \/ conn[c].b_to_a = "Running"
                     \/ conn'[c].error = "Error proxying"
                     \/ /\ conn'[c].error = "process exit"
                        /\ main \in { "Running", "ShuttingDown" }
                        /\ main' \in { "ExitOk", "ExitErr" }]_vars

\* a relay whose two peers send nothing more and keep their streams open: it
\* stays, however long
TimeoutOnlyInHandshakeWitness ==
    \E c \in Conns :
        /\ conn[c].pc = "Relay"
        /\ conn[c].copied = [a_to_b |-> 1, b_to_a |-> 1]
        /\ conn[c].clientIn = <<>> /\ conn[c].clientEnd = "Stall"
        /\ conn[c].upstreamIn = <<>> /\ conn[c].upstreamEnd = "Stall"
        /\ conn[c].error = ""

=============================================================================
